---- MODULE Spec2Model ----
(***************************************************************************)
(* Model of the extension manifest store of appium and its registries:     *)
(*   packages/appium/lib/manifest-io.js  (ManifestIO, getManifestIOInstance,*)
(*                                        loadExtensions)                   *)
(*   lib/env.js                          (getManifestPath)                  *)
(*   lib/extension-config.js             (ExtensionConfig)                  *)
(*   lib/driver-config.js                (DriverConfig)                     *)
(* One ManifestIO instance is modelled as an asynchronous state machine:   *)
(* every action is one run-to-completion step of the JavaScript event loop *)
(* (the synchronous part of a call, or the continuation after one await).  *)
(***************************************************************************)
EXTENDS Integers, Sequences, FiniteSets, TLC

\* ------------------------------------------------------------------ bounds
MaxCalls == 3      \* read()/write() calls made by callers of the store
MaxMut == 1        \* assignments/deletions made through the proxies
MaxFaults == 1     \* I/O operations the environment lets fail
MaxLookups == 4    \* getManifestIOInstance() lookups
MaxPasses == 2     \* validate() calls on one registry
MaxExtCalls == 3   \* loadExtensions() and add/update/removeExtension() calls
MaxOtherWrites == 1   \* write() calls of another user of the store

\* ------------------------------------------------------- program constants
CONFIG_SCHEMA_REV == 2
DRIVER_TYPE == "driver"
PLUGIN_TYPE == "plugin"
CONFIG_DATA_DRIVER_KEY == "drivers"
CONFIG_DATA_PLUGIN_KEY == "plugins"
MANIFEST_BASENAME == "extensions.yaml"
LOCAL_RELATIVE_MANIFEST_PATH == <<"node_modules", ".cache", "appium", MANIFEST_BASENAME>>

\* ------------------------------------------------------------ input sets
AppiumHome == "/some/path"                 \* the home of the modelled store
Homes == {"/some/path", "/some/path/", "/some/other/path"}
Names == {"foo", "constructor"}            \* extension names (mapping keys)
Absent == "absent"                         \* the key is not in the mapping
Recs == {"r1", "r2"}                       \* record objects (by reference)
Revs == {1, CONFIG_SCHEMA_REV}              \* schemaRev values a file may carry

VARIABLES
  disk,          \* the manifest file: [kind, drivers, plugins, hasRev, schemaRev]
  localAppium,   \* whether appium/package.json resolves from the home dir
  manifestPath,  \* ManifestIO._manifestPath (<<>> = undefined)
  heap,          \* manifest objects created by read(); _data refers to one
  data,          \* ManifestIO._data: index into heap, 0 = undefined
  dirty,         \* ManifestIO._dirty
  reading,       \* ManifestIO._reading: index into rproms, 0 = null
  writing,       \* ManifestIO._writing: index into wproms, 0 = null
  rproms,        \* the promises of read()'s inner async function
  wproms,        \* the promises of write()'s inner async function
  calls,         \* every read()/write() call made so far, with its outcome
  iolog,         \* every mkdirp / writeFile / readFile / getManifestPath issued
  muts,          \* number of proxy mutations made
  faults,        \* number of I/O failures injected
  cache,         \* _.memoize cache of getManifestIOInstance: key -> instance
  instances,     \* ManifestIO objects constructed: instance -> _appiumHome
  lookups,       \* every getManifestIOInstance() call: [home, inst]
  knownAutomationNames, \* DriverConfig.knownAutomationNames
  validated,     \* the last validate() call: its argument, findings and outcome
  passes,        \* number of validate() calls made
  configs,       \* the registries loadExtensions() returned last, by type
  ecalls         \* every loadExtensions() / add / update / removeExtension call

storeVars == <<disk, localAppium, manifestPath, heap, data, dirty, reading,
               writing, rproms, wproms, calls, iolog, muts, faults>>
cacheVars == <<cache, instances, lookups>>
valVars == <<knownAutomationNames, validated, passes>>
extVars == <<configs, ecalls>>
vars == <<disk, localAppium, manifestPath, heap, data, dirty, reading,
          writing, rproms, wproms, calls, iolog, muts, faults,
          cache, instances, lookups, knownAutomationNames, validated, passes,
          configs, ecalls>>

\* ------------------------------------------------------------- data model
Maps == [Names -> Recs \cup {Absent}]
EmptyMap == [n \in Names |-> Absent]

\* The mappings are plain objects (YAML.parse, or the literals of lines
\* 179-180), so a property lookup that finds no own key goes on to
\* Object.prototype, which has a property of this name.
ObjectPrototype == {"constructor"}
Inherited == "Object.prototype.constructor"

\* target[prop]
Get(target, prop) ==
  IF target[prop] # Absent THEN target[prop]
  ELSE IF prop \in ObjectPrototype THEN Inherited ELSE "undefined"

\* prop in target
In(target, prop) == target[prop] # Absent \/ prop \in ObjectPrototype

\* lib/env.js getManifestPath: a path is the sequence of its segments
hasLocalAppium(cwd) == localAppium

PathJoin(cwd, rel) == <<cwd>> \o rel

\* a resolver that ignores the local installation
getManifestPathHomeOnly(cwd) == PathJoin(cwd, <<MANIFEST_BASENAME>>)

getManifestPath(cwd) ==
  IF hasLocalAppium(cwd) THEN PathJoin(cwd, LOCAL_RELATIVE_MANIFEST_PATH)
                         ELSE PathJoin(cwd, <<MANIFEST_BASENAME>>)

Dirname(p) == SubSeq(p, 1, Len(p) - 1)

NoPath == <<>>

\* The file. kind: "absent" (ENOENT), "yaml" (a manifest document),
\* "garbage" (YAML.parse throws), "empty" (YAML.parse returns null).
FileAbsent == [kind |-> "absent", drivers |-> EmptyMap, plugins |-> EmptyMap,
               hasRev |-> FALSE, schemaRev |-> CONFIG_SCHEMA_REV]
FileGarbage == [FileAbsent EXCEPT !.kind = "garbage"]
FileEmpty == [FileAbsent EXCEPT !.kind = "empty"]
FileYaml(d, p, has, rev) ==
  [kind |-> "yaml", drivers |-> d, plugins |-> p, hasRev |-> has, schemaRev |-> rev]

\* YAML.stringify(this._data): the document carries all three keys
YAMLstringify(m) == FileYaml(m.drivers, m.plugins, TRUE, m.schemaRev)

\* the object built with the parsed schemaRev as it is (0: undefined)
ManifestOfParsedOnly(raw) ==
  [drivers |-> raw.drivers, plugins |-> raw.plugins,
   schemaRev |-> IF raw.hasRev THEN raw.schemaRev ELSE 0]

\* The object read() builds from the parsed data (lines 198-208):
\* schemaRev: data.schemaRev ?? CONFIG_SCHEMA_REV
ManifestOf(raw) ==
  [drivers |-> raw.drivers, plugins |-> raw.plugins,
   schemaRev |-> IF raw.hasRev THEN raw.schemaRev ELSE CONFIG_SCHEMA_REV]

\* the data synthesized on ENOENT (lines 178-181): no schemaRev key
NewFileData == [drivers |-> EmptyMap, plugins |-> EmptyMap, hasRev |-> FALSE,
                schemaRev |-> CONFIG_SCHEMA_REV]

\* ------------------------------------------------------------------ errors
NoErr == [name |-> "none", path |-> NoPath, home |-> ""]
ReferenceError == [name |-> "ReferenceError: No data to write. Call read() first",
                   path |-> NoPath, home |-> ""]
WriteErrorName == "Error: Appium could not write to manifest"
WriteError(p, h) == [name |-> WriteErrorName, path |-> p, home |-> h]
ReadError(p) == [name |-> "Error: Appium had trouble loading the extension installation cache file",
                 path |-> p, home |-> ""]
TypeError == [name |-> "TypeError", path |-> NoPath, home |-> ""]
UnknownProblem == [name |-> "Error: Appium encountered an unknown problem", path |-> NoPath,
                   home |-> ""]
\* what a rejected env.getManifestPath rejects with
PathCause == [name |-> "the error of getManifestPath", path |-> NoPath, home |-> ""]

\* ------------------------------------------------------- promises, calls
\* the promise of one run of read()'s inner async function (lines 167-214)
\* cause: why it rejected, or that fs.readFile failed with ENOENT
RProm(pc) == [pc |-> pc, st |-> "pending", err |-> NoErr, w |-> 0, cause |-> "none"]
\* the promise of one run of write()'s inner async function (lines 234-267)
\* failed: the environment let its mkdirp or writeFile fail
WProm(pc, st, val, err) ==
  [pc |-> pc, st |-> st, val |-> val, err |-> err, text |-> FileAbsent, failed |-> FALSE]

RPending == {r \in 1..Len(rproms) : rproms[r].st = "pending"}
WPending == {w \in 1..Len(wproms) : wproms[w].st = "pending"}
FileReadsInFlight == {r \in 1..Len(rproms) : rproms[r].pc = "readFile"}

\* the manifest objects callers hold: those a read() resolved to
Handed == {calls[i].res : i \in {j \in 1..Len(calls) : calls[j].op = "read" /\ calls[j].st = "resolved"}}

UserCalls == Cardinality({i \in 1..Len(calls) : calls[i].by = "user"})

\* one call of read() or write(), with what the store looked like when it was made
Call(op, force, by, dataNow) ==
  [op |-> op, force |-> force, by |-> by, prom |-> 0, own |-> FALSE,
   st |-> "pending", res |-> 0, dataAt |-> dataNow, dirtyAt |-> dirty,
   rfl |-> RPending, wfl |-> WPending, hnd |-> Handed]

IO(op, path, text, by) == [op |-> op, path |-> path, text |-> text, by |-> by]

\* ------------------------------------------------------- JavaScript values
\* A value is its type tag t, its text s (strings, numbers, booleans, the
\* label of an object) and, for an array, its elements a.
JS(t, s) == [t |-> t, s |-> s, a |-> <<>>]
Undefined == JS("undefined", "")
Null == JS("null", "")
Str(s) == JS("string", s)
Num(s) == JS("number", s)
Bool(s) == JS("boolean", s)
Obj(s) == JS("object", s)
Arr(a) == [t |-> "array", s |-> "", a |-> a]

\* lodash predicates
isString(v) == v.t = "string"
isArray(v) == v.t = "array"
isObject(v) == v.t \in {"object", "array"}
isPlainObject(v) == v.t = "object"
isEmpty(v) == Len(v.a) = 0

\* ------------------------------------------------------ extension records
INSTALL_TYPES == {"git", "github", "local", "npm"}

\* an entry of a mapping: t is the type of the entry's value ("object" for a
\* record, "null" for a null entry, "number" for a number), and the other
\* fields are what destructuring it yields
ExtData(t, version, pkgName, installSpec, installType, installPath, mainClass, schema, platformNames, automationName) ==
  [t |-> t, version |-> version, pkgName |-> pkgName, installSpec |-> installSpec,
   installType |-> installType, installPath |-> installPath, mainClass |-> mainClass,
   schema |-> schema, platformNames |-> platformNames, automationName |-> automationName]

Problem(err, val) == [err |-> err, val |-> val]

\* destructuring null throws a TypeError (extension-config.js line 170,
\* before any other use of the record)
Destructurable(extData) == extData.t # "null"

ProblemIf(cond, err, val) == IF cond THEN <<Problem(err, val)>> ELSE <<>>

\* a variant that stops at the first failing field
getGenericConfigProblemsFirstOnly(extData) ==
  IF ~isString(extData.version)
  THEN <<Problem("Missing or incorrect version", extData.version)>>
  ELSE IF ~isString(extData.pkgName)
  THEN <<Problem("Missing or incorrect NPM package name", extData.pkgName)>>
  ELSE IF ~isString(extData.installSpec)
  THEN <<Problem("Missing or incorrect installation spec", extData.installSpec)>>
  ELSE IF ~(isString(extData.installType) /\ extData.installType.s \in INSTALL_TYPES)
  THEN <<Problem("Missing or incorrect install type", extData.installType)>>
  ELSE IF ~isString(extData.installPath)
  THEN <<Problem("Missing or incorrect installation path", extData.installPath)>>
  ELSE ProblemIf(~isString(extData.mainClass), "Missing or incorrect driver class name",
                 extData.mainClass)

\* ExtensionConfig.getGenericConfigProblems, extension-config.js lines 169-214
getGenericConfigProblems(extData) ==
  ProblemIf(~isString(extData.version), "Missing or incorrect version", extData.version)
  \o ProblemIf(~isString(extData.pkgName), "Missing or incorrect NPM package name",
               extData.pkgName)
  \o ProblemIf(~isString(extData.installSpec), "Missing or incorrect installation spec",
               extData.installSpec)
  \o ProblemIf(~(isString(extData.installType) /\ extData.installType.s \in INSTALL_TYPES),
               "Missing or incorrect install type", extData.installType)
  \o ProblemIf(~isString(extData.installPath), "Missing or incorrect installation path",
               extData.installPath)
  \o ProblemIf(~isString(extData.mainClass), "Missing or incorrect driver class name",
               extData.mainClass)

\* a variant that reports an empty list as a missing one
getPlatformNamesProblemsNoEmpty(platformNames) ==
  IF ~isArray(platformNames) \/ isEmpty(platformNames)
  THEN <<Problem("Missing or incorrect supported platformNames list.", platformNames)>>
  ELSE LET bad == SelectSeq(platformNames.a, LAMBDA pName : ~isString(pName)) IN
       [i \in 1..Len(bad) |-> Problem("Incorrectly formatted platformName.", bad[i])]

\* DriverConfig.getConfigProblems, driver-config.js lines 74-92
getPlatformNamesProblems(platformNames) ==
  IF ~isArray(platformNames)
  THEN <<Problem("Missing or incorrect supported platformNames list.", platformNames)>>
  ELSE IF isEmpty(platformNames)
  THEN <<Problem("Empty platformNames list.", platformNames)>>
  ELSE LET bad == SelectSeq(platformNames.a, LAMBDA pName : ~isString(pName)) IN
       [i \in 1..Len(bad) |-> Problem("Incorrectly formatted platformName.", bad[i])]

DuplicateAutomationName == "Multiple drivers claim support for the same automationName"

\* a variant that records the name (line 106) before looking it up
getAutomationNameProblemsAddFirst(automationName, known) ==
  ProblemIf(~isString(automationName), "Missing or incorrect automationName", automationName)
  \o ProblemIf(automationName \in known \cup {automationName},
               DuplicateAutomationName, automationName)

\* DriverConfig.getConfigProblems, driver-config.js lines 94-103
getAutomationNameProblems(automationName, known) ==
  ProblemIf(~isString(automationName), "Missing or incorrect automationName", automationName)
  \o ProblemIf(automationName \in known, DuplicateAutomationName, automationName)

\* DriverConfig.getConfigProblems, driver-config.js lines 70-109; known is
\* this.knownAutomationNames when it is called
getConfigProblems(extData, known) ==
  getPlatformNamesProblems(extData.platformNames)
  \o getAutomationNameProblems(extData.automationName, known)

\* lib/schema/schema.js: the file extensions a schema path may have
ALLOWED_SCHEMA_EXTENSIONS == {".json", ".js", ".cjs"}
SchemaFiles == {"driver-schema.json", "driver-schema.yaml"}
extname(file) == IF file = "driver-schema.json" THEN ".json" ELSE ".yaml"
isAllowedSchemaFileExtension(file) == extname(file) \in ALLOWED_SCHEMA_EXTENSIONS

MalformedSchema ==
  "Incorrectly formatted schema field; must be a path to a schema file or a schema object."

\* ExtensionConfig.extDataHasSchema, extension-config.js lines 380-382
extDataHasSchema(extData) == isString(extData.schema) \/ isObject(extData.schema)

\* ExtensionConfig.getSchemaProblems, extension-config.js lines 122-161.
\* throwing: the extensions for which readExtensionSchema (resolving,
\* loading or registering the schema) throws.
getSchemaProblems(extData, extName, throwing) ==
  IF ~extDataHasSchema(extData) THEN <<>>
  ELSE IF isString(extData.schema)
  THEN IF isAllowedSchemaFileExtension(extData.schema.s)
       THEN ProblemIf(extName \in throwing, "Unable to register schema at path", extData.schema)
       ELSE <<Problem("Schema file has unsupported extension", extData.schema)>>
  ELSE IF isPlainObject(extData.schema)
  THEN ProblemIf(extName \in throwing, "Unable to register embedded schema", extData.schema)
  ELSE <<Problem(MalformedSchema, extData.schema)>>

\* ---------------------------------------------------------------- validate
\* A mapping in the order of its keys: a sequence of entries [name, data].
Entry(name, extData) == [name |-> name, data |-> extData]

\* validate() without the clear of line 39
KnownAtStartKept(known) == known

\* DriverConfig.validate line 39: this.knownAutomationNames.clear()
KnownAtStart(known) == {}

\* this.knownAutomationNames when getConfigProblems is called for entry k:
\* line 106 has added the name of every entry before it
KnownBefore(exts, k, known0) ==
  known0 \cup {exts[i].data.automationName : i \in 1..(k - 1)}

\* lines 78-82: the problems of entry k
FoundProblems(exts, k, known0, throwing) ==
  getGenericConfigProblems(exts[k].data)
  \o getConfigProblems(exts[k].data, KnownBefore(exts, k, known0))
  \o getSchemaProblems(exts[k].data, exts[k].name, throwing)

\* the first entry whose value cannot be destructured (0: none)
FirstThrow(exts) ==
  IF \E k \in 1..Len(exts) : ~Destructurable(exts[k].data)
  THEN CHOOSE k \in 1..Len(exts) :
         /\ ~Destructurable(exts[k].data)
         /\ \A j \in 1..(k - 1) : Destructurable(exts[j].data)
  ELSE 0

\* a second loop that never deletes
HasProblemsNever(problems) == FALSE

\* line 87: if (_.isEmpty(problems)) continue
HasProblems(problems) == problems # <<>>

\* lines 86-102: the entries left after the second loop
Pruned(exts, found) ==
  LET keep == SelectSeq([k \in 1..Len(exts) |-> k], LAMBDA k : ~HasProblems(found[k]))
  IN [i \in 1..Len(keep) |-> exts[keep[i]]]

\* lines 92-101: the report, one item for every deleted entry
Report(exts, found) ==
  LET bad == SelectSeq([k \in 1..Len(exts) |-> k], LAMBDA k : HasProblems(found[k]))
  IN [i \in 1..Len(bad) |-> [name |-> exts[bad[i]].name, problems |-> found[bad[i]]]]

\* DriverConfig.validate(exts) (driver-config.js lines 38-41) with
\* ExtensionConfig.validate (extension-config.js lines 69-115): the outcome of
\* one call. known is this.knownAutomationNames when it is called.
\* returned: validate returned (its value is the mapping it was given, now
\* holding the entries out); otherwise it threw the TypeError of line 170.
validate(exts, known, throwing) ==
  LET known0 == KnownAtStart(known)
      t == FirstThrow(exts)
      last == IF t = 0 THEN Len(exts) ELSE t - 1
      found == [k \in 1..last |-> FoundProblems(exts, k, known0, throwing)]
  IN [exts |-> exts,
      found |-> found,
      returned |-> (t = 0),
      out |-> IF t = 0 THEN Pruned(exts, found) ELSE exts,
      report |-> IF t = 0 THEN Report(exts, found) ELSE <<>>,
      knownAtCall |-> known,
      known |-> KnownBefore(exts, last + 1, known0)]

NoPass == validate(<<>>, {}, {})

\* ------------------------------------------------------------------- Init
InitDisks ==
  {FileAbsent, FileGarbage, FileEmpty}
    \cup {FileYaml(EmptyMap, EmptyMap, TRUE, rev) : rev \in Revs}
    \cup {FileYaml([EmptyMap EXCEPT !["foo"] = "r1"], EmptyMap, FALSE, CONFIG_SCHEMA_REV)}

InitCache ==
  /\ cache = [h \in Homes |-> 0]
  /\ instances = <<>>
  /\ lookups = <<>>

InitStore ==
  /\ manifestPath = NoPath
  /\ heap = <<>>
  /\ data = 0
  /\ dirty = FALSE
  /\ reading = 0
  /\ writing = 0
  /\ rproms = <<>>
  /\ wproms = <<>>
  /\ calls = <<>>
  /\ iolog = <<>>
  /\ muts = 0
  /\ faults = 0

\* a registry: made (it has been constructed), proxy (the manifest object
\* whose proxied mapping installedExtensions is; 0 when installedExtensions
\* is the registry's own object), own (the contents of that own object)
\* extData (the manifest object whose mapping the constructor was given)
NoConfig == [made |-> FALSE, proxy |-> 0, own |-> EmptyMap, extData |-> 0]

InitRegistry ==
  /\ knownAutomationNames = {}
  /\ validated = NoPass
  /\ passes = 0
  /\ configs = [ty \in {DRIVER_TYPE, PLUGIN_TYPE} |-> NoConfig]
  /\ ecalls = <<>>

Init ==
  /\ disk \in InitDisks
  /\ localAppium \in BOOLEAN
  /\ InitStore
  /\ InitCache
  /\ InitRegistry

\* ---------------------------------------------------------------- write()
\* write() without the check of line 231
WriteJoinsNever == FALSE

\* line 231: if (this._writing) return this._writing
WriteJoins == writing # 0

\* a write() that swallows the failure and reports "not written"
WriteFailedSwallowed(wp) == [wp EXCEPT !.pc = "done", !.st = "resolved", !.val = FALSE]

\* the outcome of a failed mkdirp / writeFile (lines 257-263)
WriteFailed(wp) ==
  [wp EXCEPT !.pc = "done", !.st = "rejected", !.err = WriteError(manifestPath, AppiumHome)]

\* write(force), lines 230-269, up to its first await. by: "user", or "read"
\* for the write(true) of line 212. dataNow is this._data at that moment.
\* The inner async function runs synchronously up to its first await, so when
\* it returns or throws before awaiting (lines 237 and 241) its finally
\* (line 265) has already run when line 234 assigns its promise to _writing.
\* _data is assigned (line 198) only after _manifestPath (line 171), so the
\* await of line 245 is never taken and mkdirp is called synchronously.
\* dirtyNow is this._dirty at that moment.
DoWriteWith(force, by, dataNow, dirtyNow) ==
  IF WriteJoins
  THEN /\ calls' = Append(calls, [Call("write", force, by, dataNow) EXCEPT
                                    !.prom = writing, !.dirtyAt = dirtyNow])
       /\ UNCHANGED <<writing, wproms, iolog>>
  ELSE LET w == Len(wproms) + 1 IN
       /\ writing' = w
       /\ calls' = Append(calls, [Call("write", force, by, dataNow) EXCEPT
                                    !.prom = w, !.own = TRUE, !.dirtyAt = dirtyNow])
       /\ IF ~dirtyNow /\ ~force
          THEN /\ wproms' = Append(wproms, WProm("done", "resolved", FALSE, NoErr))
               /\ UNCHANGED iolog
          ELSE IF dataNow = 0
          THEN /\ wproms' = Append(wproms, WProm("done", "rejected", FALSE, ReferenceError))
               /\ UNCHANGED iolog
          ELSE /\ wproms' = Append(wproms, WProm("mkdirp", "pending", FALSE, NoErr))
               /\ iolog' = Append(iolog, IO("mkdirp", Dirname(manifestPath), FileAbsent, w))

DoWrite(force, by, dataNow) == DoWriteWith(force, by, dataNow, dirty)

WriteCall(force) ==
  /\ UserCalls < MaxCalls
  /\ DoWrite(force, "user", data)
  /\ UNCHANGED <<disk, localAppium, manifestPath, heap, data, dirty, reading, rproms,
                 muts, faults>>
  /\ UNCHANGED <<cacheVars, valVars, extVars>>

\* a write() that leaves its handle set when it settles
HandleAfterWriteKept(w) == w

\* lines 264-266: finally { this._writing = null }, run after a real await
HandleAfterWrite(w) == 0

\* mkdirp settles (line 249); on success writeFile is called with the
\* serialization of _data as it is now (lines 250-254)
MkdirpDone(w, ok) ==
  /\ w \in 1..Len(wproms)
  /\ wproms[w].pc = "mkdirp"
  /\ IF ok
     THEN /\ wproms' = [wproms EXCEPT ![w].pc = "writeFile", ![w].text = YAMLstringify(heap[data])]
          /\ iolog' = Append(iolog, IO("writeFile", manifestPath, YAMLstringify(heap[data]), w))
          /\ UNCHANGED <<writing, faults>>
     ELSE /\ faults < MaxFaults
          /\ faults' = faults + 1
          /\ wproms' = [wproms EXCEPT ![w] = WriteFailed([wproms[w] EXCEPT !.failed = TRUE])]
          /\ writing' = HandleAfterWrite(w)
          /\ UNCHANGED iolog
  /\ UNCHANGED <<disk, localAppium, manifestPath, heap, data, dirty, reading, rproms,
                 calls, muts>>
  /\ UNCHANGED <<cacheVars, valVars, extVars>>

\* writeFile settles (lines 250-256, 257-266). A failed writeFile leaves the
\* file as it was or truncated.
WriteFileDone(w, ok) ==
  /\ w \in 1..Len(wproms)
  /\ wproms[w].pc = "writeFile"
  /\ IF ok
     THEN /\ disk' = wproms[w].text
          /\ dirty' = FALSE
          /\ wproms' = [wproms EXCEPT ![w].pc = "done", ![w].st = "resolved", ![w].val = TRUE]
          /\ UNCHANGED faults
     ELSE /\ faults < MaxFaults
          /\ faults' = faults + 1
          /\ disk' \in {disk, FileEmpty}
          /\ wproms' = [wproms EXCEPT ![w] = WriteFailed([wproms[w] EXCEPT !.failed = TRUE])]
          /\ UNCHANGED dirty
  /\ writing' = HandleAfterWrite(w)
  /\ UNCHANGED <<localAppium, manifestPath, heap, data, reading, rproms, calls, iolog, muts>>
  /\ UNCHANGED <<cacheVars, valVars, extVars>>

\* ----------------------------------------------------------------- read()
\* read() without the early return of line 159
ReadReturnsLoadedNever(force) == FALSE

\* line 159: if (this._data && !force) return this._data
ReadReturnsLoaded(force) == data # 0 /\ ~force

\* read() without the check of line 162
ReadJoinsNever == FALSE

\* line 162: if (this._reading) { await this._reading; return this._data }
ReadJoins == reading # 0

\* read(force), lines 158-221, up to its first await: the inner function
\* awaits getManifestPath when no path is cached (line 171), and otherwise
\* calls fs.readFile at once (line 174)
DoRead(force, by) ==
  IF ReadReturnsLoaded(force)
  THEN /\ calls' = Append(calls, [Call("read", force, by, data) EXCEPT
                                    !.st = "resolved", !.res = data])
       /\ UNCHANGED <<reading, rproms, iolog>>
  ELSE IF ReadJoins
  THEN /\ calls' = Append(calls, [Call("read", force, by, data) EXCEPT !.prom = reading])
       /\ UNCHANGED <<reading, rproms, iolog>>
  ELSE LET r == Len(rproms) + 1 IN
       /\ reading' = r
       /\ calls' = Append(calls, [Call("read", force, by, data) EXCEPT
                                    !.prom = r, !.own = TRUE])
       /\ IF manifestPath = NoPath
          THEN /\ rproms' = Append(rproms, RProm("getPath"))
               /\ iolog' = Append(iolog, IO("getManifestPath", <<AppiumHome>>, FileAbsent, r))
          ELSE /\ rproms' = Append(rproms, RProm("readFile"))
               /\ iolog' = Append(iolog, IO("readFile", manifestPath, FileAbsent, r))

\* a read(force) call of a caller of the store
ReadCall(force) ==
  /\ UserCalls < MaxCalls
  /\ DoRead(force, "user")
  /\ UNCHANGED <<disk, localAppium, manifestPath, heap, data, dirty, writing, wproms,
                 muts, faults>>
  /\ UNCHANGED <<cacheVars, valVars, extVars>>

\* getManifestPath resolved (line 171; it never rejects: hasLocalAppium
\* swallows the resolution failure), then fs.readFile is called (line 174)
ReadPathResolved(r) ==
  /\ r \in 1..Len(rproms)
  /\ rproms[r].pc = "getPath"
  /\ manifestPath' = getManifestPath(AppiumHome)
  /\ rproms' = [rproms EXCEPT ![r].pc = "readFile"]
  /\ iolog' = Append(iolog, IO("readFile", manifestPath', FileAbsent, r))
  /\ UNCHANGED <<disk, localAppium, heap, data, dirty, reading, writing, wproms, calls,
                 muts, faults>>
  /\ UNCHANGED <<cacheVars, valVars, extVars>>

\* the catch of lines 183-195 for an error that is not ENOENT
ReadCatch == IF manifestPath # NoPath THEN ReadError(manifestPath) ELSE UnknownProblem

\* the inner function rejects (lines 183-195, or a TypeError of line 199)
ReadRejected(r, e, cause) ==
  /\ rproms' = [rproms EXCEPT ![r].pc = "settled", ![r].st = "rejected", ![r].err = e,
                              ![r].cause = cause]
  /\ UNCHANGED <<heap, data, writing, wproms, calls, iolog>>

\* fs.readFile settles and the inner function runs on to its next await or
\* its end (lines 174-213). eacces: the read fails for another reason than
\* ENOENT.
ReadFileDone(r, eacces) ==
  /\ r \in 1..Len(rproms)
  /\ rproms[r].pc = "readFile"
  /\ IF eacces
     THEN /\ faults < MaxFaults
          /\ faults' = faults + 1
          /\ ReadRejected(r, ReadCatch, "readFile")
     ELSE /\ UNCHANGED faults
          /\ IF disk.kind = "garbage" THEN ReadRejected(r, ReadCatch, "parse")
             ELSE IF disk.kind = "empty" THEN ReadRejected(r, TypeError, "null")
             ELSE IF disk.kind = "yaml"
             THEN /\ heap' = Append(heap, ManifestOf(disk))
                  /\ data' = Len(heap) + 1
                  /\ rproms' = [rproms EXCEPT ![r].pc = "settled", ![r].st = "resolved"]
                  /\ UNCHANGED <<writing, wproms, calls, iolog>>
             ELSE /\ heap' = Append(heap, ManifestOf(NewFileData))
                  /\ data' = Len(heap) + 1
                  /\ DoWrite(TRUE, "read", Len(heap) + 1)
                  /\ rproms' = [rproms EXCEPT ![r].pc = "awaitWrite",
                                              ![r].cause = "ENOENT",
                                              ![r].w = IF WriteJoins THEN writing
                                                       ELSE Len(wproms) + 1]
  /\ UNCHANGED <<disk, localAppium, manifestPath, dirty, reading, muts>>
  /\ UNCHANGED <<cacheVars, valVars, extVars>>

\* the write(true) of line 212 has settled: the inner function ends, or
\* rejects with the error of the write
ReadAfterWrite(r) ==
  /\ r \in 1..Len(rproms)
  /\ rproms[r].pc = "awaitWrite"
  /\ wproms[rproms[r].w].st # "pending"
  /\ rproms' = [rproms EXCEPT ![r].pc = "settled",
                  ![r].st = IF wproms[rproms[r].w].st = "resolved" THEN "resolved" ELSE "rejected",
                  ![r].err = wproms[rproms[r].w].err]
  /\ UNCHANGED <<disk, localAppium, manifestPath, heap, data, dirty, reading, writing,
                 wproms, calls, iolog, muts, faults>>
  /\ UNCHANGED <<cacheVars, valVars, extVars>>

\* _reading has settled: the call that started it clears the handle (lines
\* 215-220) and every call awaiting it returns this._data or rejects (lines
\* 163-164, 216-217); these continuations run back to back
ReadFinish(r) ==
  /\ r \in 1..Len(rproms)
  /\ rproms[r].pc = "settled"
  /\ rproms' = [rproms EXCEPT ![r].pc = "done"]
  /\ reading' = 0
  /\ calls' = [i \in 1..Len(calls) |->
                 IF calls[i].op = "read" /\ calls[i].prom = r
                 THEN [calls[i] EXCEPT !.st = rproms[r].st,
                                       !.res = IF rproms[r].st = "resolved" THEN data ELSE 0]
                 ELSE calls[i]]
  /\ UNCHANGED <<disk, localAppium, manifestPath, heap, data, dirty, writing, wproms,
                 iolog, muts, faults>>
  /\ UNCHANGED <<cacheVars, valVars, extVars>>

\* ---------------------------------------------------------------- proxies
\* _createProxy set trap (lines 113-121): manifest[key][n] = v
ProxySet(o, key, n, v) ==
  /\ muts < MaxMut
  /\ o \in Handed
  /\ muts' = muts + 1
  /\ dirty' = (dirty \/ (v # Get(heap[o][key], n)))
  /\ heap' = [heap EXCEPT ![o][key][n] = v]
  /\ UNCHANGED <<disk, localAppium, manifestPath, data, reading, writing, rproms, wproms,
                 calls, iolog, faults>>
  /\ UNCHANGED <<cacheVars, valVars, extVars>>

\* _createProxy deleteProperty trap (lines 122-127): delete manifest[key][n]
ProxyDelete(o, key, n) ==
  /\ muts < MaxMut
  /\ o \in Handed
  /\ muts' = muts + 1
  /\ dirty' = (dirty \/ In(heap[o][key], n))
  /\ heap' = [heap EXCEPT ![o][key][n] = Absent]
  /\ UNCHANGED <<disk, localAppium, manifestPath, data, reading, writing, rproms, wproms,
                 calls, iolog, faults>>
  /\ UNCHANGED <<cacheVars, valVars, extVars>>

Keys == {CONFIG_DATA_DRIVER_KEY, CONFIG_DATA_PLUGIN_KEY}

Next ==
  \/ \E force \in BOOLEAN : ReadCall(force)
  \/ \E r \in 1..Len(rproms) : ReadPathResolved(r)
  \/ \E r \in 1..Len(rproms), eacces \in BOOLEAN : ReadFileDone(r, eacces)
  \/ \E r \in 1..Len(rproms) : ReadAfterWrite(r)
  \/ \E r \in 1..Len(rproms) : ReadFinish(r)
  \/ \E force \in BOOLEAN : WriteCall(force)
  \/ \E w \in 1..Len(wproms), ok \in BOOLEAN : MkdirpDone(w, ok)
  \/ \E w \in 1..Len(wproms), ok \in BOOLEAN : WriteFileDone(w, ok)
  \/ \E o \in 1..Len(heap), key \in Keys, n \in Names, v \in Recs : ProxySet(o, key, n, v)
  \/ \E o \in 1..Len(heap), key \in Keys, n \in Names : ProxyDelete(o, key, n)

Spec == Init /\ [][Next]_vars

\* -------------------------------------------- a path resolver that can fail
\* env.getManifestPath is a collaborator of the store (the tests replace
\* it). When it rejects, the await of line 171, which is outside the try of
\* line 172, rejects the inner function with that error as it is; the path
\* stays unresolved.
ReadPathRejected(r) ==
  /\ r \in 1..Len(rproms)
  /\ rproms[r].pc = "getPath"
  /\ faults < MaxFaults
  /\ faults' = faults + 1
  /\ ReadRejected(r, PathCause, "path")
  /\ UNCHANGED <<disk, localAppium, manifestPath, dirty, reading, muts>>
  /\ UNCHANGED <<cacheVars, valVars, extVars>>

NextEnv ==
  \/ Next
  \/ \E r \in 1..Len(rproms) : ReadPathRejected(r)

SpecEnv == Init /\ [][NextEnv]_vars

\* ------------------------------------------------- getManifestIOInstance
\* a cache keyed by the path without its trailing separator
CacheKeyNormalized(appiumHome) ==
  IF appiumHome = "/some/path/" THEN "/some/path" ELSE appiumHome

\* _.memoize keys its cache by the first argument as it is given
CacheKey(appiumHome) == appiumHome

\* getManifestIOInstance(appiumHome), lines 277-283: _.memoize returns the
\* cached instance for the key, or constructs, caches and returns a new one
Memoized(appiumHome) ==
  IF cache[CacheKey(appiumHome)] # 0
  THEN /\ lookups' = Append(lookups, [home |-> appiumHome, inst |-> cache[CacheKey(appiumHome)]])
       /\ UNCHANGED <<cache, instances>>
  ELSE /\ instances' = Append(instances, appiumHome)
       /\ cache' = [cache EXCEPT ![CacheKey(appiumHome)] = Len(instances) + 1]
       /\ lookups' = Append(lookups, [home |-> appiumHome, inst |-> Len(instances) + 1])

\* a getManifestIOInstance(appiumHome) call
Lookup(appiumHome) ==
  /\ Len(lookups) < MaxLookups
  /\ Memoized(appiumHome)
  /\ UNCHANGED <<storeVars, valVars, extVars>>

InitLookups ==
  /\ disk = FileAbsent
  /\ localAppium = FALSE
  /\ InitStore
  /\ InitCache
  /\ InitRegistry

NextLookups == \E h \in Homes : Lookup(h)

SpecLookups == InitLookups /\ [][NextLookups]_vars

\* ------------------------------------------------ DriverConfig.validate
\* the entries validate() is given
GoodDriver ==
  ExtData("object", Str("1.0.0"), Str("appium-fake-driver"), Str("appium-fake-driver"),
          Str("npm"), Str("fake"), Str("FakeDriver"), Undefined,
          Arr(<<Str("iOS")>>), Str("XCUITest"))

GenericFields == {"version", "pkgName", "installSpec", "installType", "installPath", "mainClass"}

\* GoodDriver with the fields of bad missing (installType: not an install type)
WithBadFields(bad) ==
  [f \in DOMAIN GoodDriver |->
     IF f \in bad THEN (IF f = "installType" THEN Str("foo") ELSE Undefined)
     ELSE GoodDriver[f]]

NullEntry ==
  ExtData("null", Undefined, Undefined, Undefined, Undefined, Undefined, Undefined,
          Undefined, Undefined, Undefined)
NumberEntry == [NullEntry EXCEPT !.t = "number"]

PlatformNamesValues ==
  {Undefined, Str("iOS"), Arr(<<>>), Arr(<<Str("iOS")>>), Arr(<<Str("iOS"), Num("5")>>),
   Arr(<<Num("5"), Null>>)}
AutomationNameValues == {Str("XCUITest"), Str("UiAutomator2"), Undefined, Num("5")}
SchemaValues ==
  {Undefined, Null, Num("5"), Bool("true"), Arr(<<>>), Obj("schema")}
    \cup {Str(f) : f \in SchemaFiles}

Entries ==
  {WithBadFields(bad) : bad \in SUBSET GenericFields}
    \cup {[GoodDriver EXCEPT ![f] = Num("5")] : f \in GenericFields}
    \cup {[GoodDriver EXCEPT !.platformNames = v] : v \in PlatformNamesValues}
    \cup {[GoodDriver EXCEPT !.automationName = v] : v \in AutomationNameValues}
    \cup {[GoodDriver EXCEPT !.schema = v] : v \in SchemaValues}
    \cup {NullEntry, NumberEntry}

\* the entries of the mappings with two and with three entries
EntriesOfTwo ==
  {GoodDriver, WithBadFields({"mainClass"}), NullEntry,
   [GoodDriver EXCEPT !.schema = Num("5")], [GoodDriver EXCEPT !.schema = Obj("schema")]}
    \cup {[GoodDriver EXCEPT !.automationName = v] : v \in AutomationNameValues}
EntriesOfThree ==
  {GoodDriver, WithBadFields({"mainClass"}), [GoodDriver EXCEPT !.automationName = Str("UiAutomator2")]}

ExtNames == <<"fake", "other", "third">>

Mappings ==
  {<<>>}
    \cup {<<Entry(ExtNames[1], a)>> : a \in Entries}
    \cup {<<Entry(ExtNames[1], a), Entry(ExtNames[2], b)>> : a \in EntriesOfTwo, b \in EntriesOfTwo}
    \cup {<<Entry(ExtNames[1], a), Entry(ExtNames[2], b), Entry(ExtNames[3], c)>> :
            a \in EntriesOfThree, b \in EntriesOfThree, c \in EntriesOfThree}

\* driverConfig.validate(exts) on one DriverConfig
Validate(exts, throwing) ==
  /\ passes < MaxPasses
  /\ validated' = validate(exts, knownAutomationNames, throwing)
  /\ knownAutomationNames' = validated'.known
  /\ passes' = passes + 1
  /\ UNCHANGED <<storeVars, cacheVars, extVars>>

InitValidate ==
  /\ disk = FileAbsent
  /\ localAppium = FALSE
  /\ InitStore
  /\ InitCache
  /\ InitRegistry

\* driverConfig.validate(driverConfig.validate(exts)): validate returns the
\* mapping it was given (line 114), which is validated again
Revalidate(throwing) ==
  /\ passes > 0 /\ validated.returned
  /\ Validate(validated.out, throwing)

NextValidate ==
  \/ \E exts \in Mappings, throwing \in SUBSET {ExtNames[1], ExtNames[2]} : Validate(exts, throwing)
  \/ \E throwing \in SUBSET {ExtNames[1], ExtNames[2]} : Revalidate(throwing)

SpecValidate == InitValidate /\ [][NextValidate]_vars

\* ------------------------------------------- loadExtensions, registries
\* what the record objects of the manifest hold: r1 is a well-formed record,
\* r2 has no mainClass; r1u, r2u and u are r1, r2 and no record merged with
\* the fields updateExtension is given
RecordOf ==
  [r1 |-> GoodDriver,
   r2 |-> WithBadFields({"mainClass"}),
   r1u |-> [GoodDriver EXCEPT !.version = Str("2.0.0")],
   r2u |-> [WithBadFields({"mainClass"}) EXCEPT !.version = Str("2.0.0")],
   u |-> [NumberEntry EXCEPT !.t = "object", !.version = Str("2.0.0")]]

\* the extData updateExtension is called with: one field
UpdatePartial == [version |-> Str("2.0.0")]

\* an object literal that keeps only the fields of the second object
SpreadSecondOnly(rec, part) ==
  [f \in DOMAIN rec |->
     IF f = "t" THEN "object" ELSE IF f \in DOMAIN part THEN part[f] ELSE Undefined]

\* {...rec, ...part} (lines 243-246): the fields of rec, overridden by those
\* of part
Spread(rec, part) ==
  [f \in DOMAIN rec |->
     IF f = "t" THEN "object" ELSE IF f \in DOMAIN part THEN part[f] ELSE rec[f]]

\* the record updateExtension stores, given the one stored before; spreading
\* the undefined of an absent record contributes no field
Updated(old) ==
  CHOOSE l \in DOMAIN RecordOf :
    RecordOf[l] = Spread(IF old = Absent THEN NullEntry ELSE RecordOf[old], UpdatePartial)

\* ExtensionConfig.constructor line 52: this.configKey
ConfigKey(ty) == IF ty = DRIVER_TYPE THEN CONFIG_DATA_DRIVER_KEY ELSE CONFIG_DATA_PLUGIN_KEY

\* _.toPairs(exts) (line 76): the entries in the order of the keys
Orders == {<<"foo", "constructor">>, <<"constructor", "foo">>}
toPairs(exts, ord) ==
  LET present == SelectSeq(ord, LAMBDA n : exts[n] # Absent)
  IN [i \in 1..Len(present) |-> Entry(present[i], RecordOf[exts[present[i]]])]

\* the mapping after validate() has deleted the entries that are not in out
AfterValidate(exts, out) ==
  [n \in Names |-> IF \E i \in 1..Len(out) : out[i].name = n THEN exts[n] ELSE Absent]

\* ExtensionConfig.validate with the getConfigProblems of the base class
\* (extension-config.js lines 69-115 and 222-225)
validateBase(exts, throwing) ==
  LET t == FirstThrow(exts)
      last == IF t = 0 THEN Len(exts) ELSE t - 1
      found == [k \in 1..last |->
                  getGenericConfigProblems(exts[k].data)
                  \o getSchemaProblems(exts[k].data, exts[k].name, throwing)]
  IN [exts |-> exts, found |-> found, returned |-> (t = 0),
      out |-> IF t = 0 THEN Pruned(exts, found) ELSE exts,
      report |-> IF t = 0 THEN Report(exts, found) ELSE <<>>,
      knownAtCall |-> {}, known |-> {}]

\* DriverConfig.create(io, {extData}) (driver-config.js lines 24-32, 51-55):
\* installedExtensions is the {} of extension-config.js line 50; extData is
\* validated and not kept
DriverConfigCreated(o) == [made |-> TRUE, proxy |-> 0, own |-> EmptyMap, extData |-> o]

\* PluginConfig.create(io, {extData}): the registry is seeded with the
\* mapping it validated
PluginConfigCreated(o) == [made |-> TRUE, proxy |-> o, own |-> EmptyMap, extData |-> o]

\* one call of loadExtensions or of a registry method; call: the read() or
\* write() call it awaits; io: the I/O issued before it; was, new: the
\* value of installedExtensions[name] before and after; pruned: the
\* validation of loadExtensions deleted an entry, at: the number of read()
\* and write() calls made when it did
ECall(op, ty, name, was, new) ==
  [op |-> op, ty |-> ty, name |-> name, was |-> was, new |-> new, st |-> "pending",
   call |-> Len(calls) + 1, io |-> Len(iolog), pruned |-> FALSE, at |-> 0]

\* loadExtensions(AppiumHome), manifest-io.js lines 290-293, up to its await
LoadExtensions ==
  /\ Len(ecalls) < MaxExtCalls
  /\ Memoized(AppiumHome)
  /\ DoRead(FALSE, "load")
  /\ ecalls' = Append(ecalls, ECall("load", DRIVER_TYPE, "foo", Absent, Absent))
  /\ UNCHANGED <<disk, localAppium, manifestPath, heap, data, dirty, writing, wproms,
                 muts, faults, valVars, configs>>

\* io.read() has settled: loadExtensions rejects, or creates the two
\* registries (lines 293-296); their constructors validate the two mappings,
\* deleting the invalid entries through the proxies
LoadExtensionsContinue(e, ord) ==
  /\ e \in 1..Len(ecalls)
  /\ ecalls[e].op = "load" /\ ecalls[e].st = "pending"
  /\ calls[ecalls[e].call].st # "pending"
  /\ IF calls[ecalls[e].call].st = "rejected"
     THEN /\ ecalls' = [ecalls EXCEPT ![e].st = "rejected"]
          /\ UNCHANGED <<heap, dirty, valVars, configs>>
     ELSE LET o == calls[ecalls[e].call].res
              d == validate(toPairs(heap[o].drivers, ord), {}, {})
              p == validateBase(toPairs(heap[o].plugins, ord), {})
          IN /\ validated' = d
             /\ knownAutomationNames' = d.known
             /\ passes' = passes + 1
             /\ heap' = [heap EXCEPT ![o].drivers = AfterValidate(@, d.out),
                                     ![o].plugins = AfterValidate(@, p.out)]
             /\ dirty' = (dirty \/ d.report # <<>> \/ p.report # <<>>)
             /\ configs' = [configs EXCEPT ![DRIVER_TYPE] = DriverConfigCreated(o),
                                           ![PLUGIN_TYPE] = PluginConfigCreated(o)]
             /\ ecalls' = [ecalls EXCEPT ![e].st = "resolved",
                                         ![e].pruned = (heap' # heap),
                                         ![e].at = Len(calls)]
  /\ UNCHANGED <<disk, localAppium, manifestPath, data, reading, writing, rproms, wproms,
                 calls, iolog, muts, faults, cacheVars>>

\* this.installedExtensions[extName]
Installed(ty, n) ==
  IF configs[ty].proxy # 0 THEN heap[configs[ty].proxy][ConfigKey(ty)][n]
                           ELSE configs[ty].own[n]

\* the same in the mappings h and the registries cf
InstalledIn(h, cf, ty, n) ==
  IF cf[ty].proxy # 0 THEN h[cf[ty].proxy][ConfigKey(ty)][n] ELSE cf[ty].own[n]

\* ExtensionConfig.isInstalled, extension-config.js lines 335-337
isInstalled(ty, n) == Installed(ty, n) # Absent

\* a registry method: this.installedExtensions[extName] becomes new (through
\* the proxy when installedExtensions is one, which sets the dirty flag as
\* dirtyNow), then this.io.write() is called and awaited
RegistryWrite(op, ty, n, new, dirtyNow) ==
  /\ Len(ecalls) < MaxExtCalls
  /\ configs[ty].made
  /\ IF configs[ty].proxy # 0
     THEN /\ heap' = [heap EXCEPT ![configs[ty].proxy][ConfigKey(ty)][n] = new]
          /\ dirty' = dirtyNow
          /\ DoWriteWith(FALSE, "registry", data, dirtyNow)
          /\ UNCHANGED configs
     ELSE /\ configs' = [configs EXCEPT ![ty].own[n] = new]
          /\ DoWriteWith(FALSE, "registry", data, dirty)
          /\ UNCHANGED <<heap, dirty>>
  /\ ecalls' = Append(ecalls, ECall(op, ty, n, Installed(ty, n), new))
  /\ UNCHANGED <<disk, localAppium, manifestPath, data, reading, rproms, muts, faults,
                 cacheVars, valVars>>

\* ExtensionConfig.addExtension, extension-config.js lines 232-235
AddExtension(ty, n, extData) ==
  RegistryWrite("add", ty, n, extData,
                dirty \/ (configs[ty].proxy # 0
                            /\ extData # Get(heap[configs[ty].proxy][ConfigKey(ty)], n)))

\* ExtensionConfig.updateExtension, lines 242-248: the merged record is a
\* new object, so the set trap always finds it different
UpdateExtension(ty, n) ==
  RegistryWrite("update", ty, n, Updated(Installed(ty, n)), TRUE)

\* ExtensionConfig.removeExtension, lines 254-257
RemoveExtension(ty, n) ==
  RegistryWrite("remove", ty, n, Absent,
                dirty \/ (configs[ty].proxy # 0
                            /\ In(heap[configs[ty].proxy][ConfigKey(ty)], n)))

\* the write() a registry method awaits has settled: the method resolves, or
\* rejects with the error of the write
RegistrySettle(e) ==
  /\ e \in 1..Len(ecalls)
  /\ ecalls[e].op # "load" /\ ecalls[e].st = "pending"
  /\ wproms[calls[ecalls[e].call].prom].st # "pending"
  /\ ecalls' = [ecalls EXCEPT ![e].st = wproms[calls[ecalls[e].call].prom].st]
  /\ UNCHANGED <<storeVars, cacheVars, valVars, configs>>

InitExtDisks ==
  {FileAbsent,
   FileYaml([EmptyMap EXCEPT !["foo"] = "r1"], EmptyMap, TRUE, CONFIG_SCHEMA_REV),
   FileYaml([EmptyMap EXCEPT !["foo"] = "r2"], [EmptyMap EXCEPT !["foo"] = "r1"], TRUE,
            CONFIG_SCHEMA_REV),
   FileYaml([foo |-> "r1", constructor |-> "r1"], [EmptyMap EXCEPT !["foo"] = "r2"], TRUE,
            CONFIG_SCHEMA_REV)}

InitExt ==
  /\ disk \in InitExtDisks
  /\ localAppium = FALSE
  /\ InitStore
  /\ InitCache
  /\ InitRegistry

Types == {DRIVER_TYPE, PLUGIN_TYPE}

NextExt ==
  \/ LoadExtensions
  \/ \E e \in 1..Len(ecalls), ord \in Orders : LoadExtensionsContinue(e, ord)
  \/ \E ty \in Types, n \in Names, extData \in Recs : AddExtension(ty, n, extData)
  \/ \E ty \in Types, n \in Names : UpdateExtension(ty, n)
  \/ \E ty \in Types, n \in Names : RemoveExtension(ty, n)
  \/ \E e \in 1..Len(ecalls) : RegistrySettle(e)
  \/ \E r \in 1..Len(rproms) : ReadPathResolved(r)
  \/ \E r \in 1..Len(rproms), eacces \in BOOLEAN : ReadFileDone(r, eacces)
  \/ \E r \in 1..Len(rproms) : ReadAfterWrite(r)
  \/ \E r \in 1..Len(rproms) : ReadFinish(r)
  \/ \E w \in 1..Len(wproms), ok \in BOOLEAN : MkdirpDone(w, ok)
  \/ \E w \in 1..Len(wproms), ok \in BOOLEAN : WriteFileDone(w, ok)

SpecExt == InitExt /\ [][NextExt]_vars

\* the registries next to another user of the store, who calls write()
OtherWriteCall == UserCalls < MaxOtherWrites /\ WriteCall(FALSE)

NextExtStore ==
  \/ NextExt
  \/ OtherWriteCall

SpecExtStore == InitExt /\ [][NextExtStore]_vars

\* ================================================================ claims
ReadCalls == {i \in 1..Len(calls) : calls[i].op = "read"}
WriteCalls == {i \in 1..Len(calls) : calls[i].op = "write"}
IOBy(op, by) == {k \in 1..Len(iolog) : iolog[k].op = op /\ iolog[k].by = by}
EmptyManifest == [drivers |-> EmptyMap, plugins |-> EmptyMap, schemaRev |-> CONFIG_SCHEMA_REV]

\* C1: on a store whose manifest has been read, every write() without force
\* that starts while the dirty flag is set and no file write is in flight
\* runs its own dirty-check, issues a file write (mkdirp, then writeFile) and,
\* when it resolves, resolves to true with the file written - whatever calls
\* came before it.
C1_DirtyWriteWrites ==
  \A i \in WriteCalls :
    (~calls[i].force /\ calls[i].dataAt # 0 /\ calls[i].dirtyAt /\ calls[i].wfl = {})
      => /\ calls[i].own
         /\ IOBy("mkdirp", calls[i].prom) # {}
         /\ wproms[calls[i].prom].st = "resolved"
              => (wproms[calls[i].prom].val = TRUE /\ IOBy("writeFile", calls[i].prom) # {})

\* C2: a write() without force made while the dirty flag is not set and no
\* write is in flight resolves to false, issues no mkdirp and no writeFile,
\* and leaves the manifest, the dirty flag and the file as they were.
C2_CleanWriteIsNoop ==
  [][(~dirty /\ WPending = {} /\ WriteCall(FALSE))
       => /\ iolog' = iolog
          /\ heap' = heap /\ data' = data /\ dirty' = dirty /\ disk' = disk
          /\ wproms'[calls'[Len(calls')].prom].st = "resolved"
          /\ wproms'[calls'[Len(calls')].prom].val = FALSE]_vars

\* C3: when the manifest file does not exist, the first read() on a store
\* resolves to {drivers:{}, plugins:{}, schemaRev:2} and triggers exactly one
\* writeFile of that content to the resolved path, after one mkdirp of its
\* parent directory - whatever write() calls were made before that read().
FirstRead == CHOOSE i \in ReadCalls : \A j \in ReadCalls : i <= j

C3_NewFileBootstrap ==
  (ReadCalls # {} /\ calls[FirstRead].st = "resolved" /\ rproms[calls[FirstRead].prom].w # 0)
    => LET w == rproms[calls[FirstRead].prom].w IN
       /\ muts = 0 => heap[calls[FirstRead].res] = EmptyManifest
       /\ Cardinality(IOBy("writeFile", w)) = 1
       /\ \A k \in IOBy("writeFile", w) :
            /\ iolog[k].path = getManifestPath(AppiumHome)
            /\ iolog[k].text = YAMLstringify(EmptyManifest)
            /\ \E m \in IOBy("mkdirp", w) : m < k /\ iolog[m].path = Dirname(iolog[k].path)

C5_ReadCoalescing ==
  /\ Cardinality(FileReadsInFlight) <= 1
  /\ Cardinality(RPending) <= 1
  /\ \A j \in ReadCalls : calls[j].rfl # {} => ~calls[j].own
  /\ \A i, j \in ReadCalls :
       (i < j /\ calls[i].own /\ calls[i].prom \in calls[j].rfl)
         => Cardinality(IOBy("readFile", calls[i].prom) \cup IOBy("readFile", calls[j].prom))
              = IF rproms[calls[i].prom].pc = "getPath" THEN 0 ELSE 1

\* two read() calls, the second made while the first was in flight, have both
\* resolved and the file was read once
C5_Witness ==
  \E i, j \in ReadCalls :
    /\ i < j /\ calls[i].own /\ calls[i].prom \in calls[j].rfl
    /\ calls[i].st = "resolved" /\ calls[j].st = "resolved"
    /\ Cardinality({k \in 1..Len(iolog) : iolog[k].op = "readFile"}) = 1

\* C6: every read() made while a read is in flight (a forced re-read started
\* after a manifest was loaded included) resolves to the same manifest object
\* as the in-flight read.
C6_ReadsInFlightAgree ==
  \A i, j \in ReadCalls :
    (/\ i < j /\ calls[i].own /\ calls[i].prom \in calls[j].rfl
     /\ calls[i].st = "resolved" /\ calls[j].st = "resolved")
      => calls[j].res = calls[i].res

\* C7: a write() made while a file write is in flight returns the promise of
\* that write, so it settles as that write settles, and it issues no file
\* write of its own; at most one file write is in flight at any time.
C7_WriteCoalescing ==
  /\ Cardinality(WPending) <= 1
  /\ \A j \in WriteCalls :
       calls[j].wfl # {} => (calls[j].prom \in calls[j].wfl /\ ~calls[j].own)

\* a write() made while a file write was in flight has resolved to true with
\* that write
C7_Witness ==
  \E j \in WriteCalls :
    /\ calls[j].wfl # {} /\ calls[j].prom \in calls[j].wfl
    /\ wproms[calls[j].prom].st = "resolved" /\ wproms[calls[j].prom].val = TRUE

\* C8: on a store for which no manifest has been loaded, every write(true)
\* rejects with the ReferenceError and every write() without force resolves
\* to false without I/O, in whatever order these calls are made.
C8_WriteBeforeRead ==
  \A j \in WriteCalls :
    (calls[j].by = "user" /\ calls[j].dataAt = 0)
      => /\ IOBy("mkdirp", calls[j].prom) = {} /\ IOBy("writeFile", calls[j].prom) = {}
         /\ IF calls[j].force
            THEN wproms[calls[j].prom].st = "rejected" /\ wproms[calls[j].prom].err = ReferenceError
            ELSE wproms[calls[j].prom].st = "resolved" /\ wproms[calls[j].prom].val = FALSE

\* C9: a write() whose mkdirp or writeFile failed rejects with the error that
\* names the manifest path and the home directory; it never resolves.
C9_WriteFailureRejects ==
  \A w \in 1..Len(wproms) :
    wproms[w].failed
      => /\ wproms[w].st = "rejected"
         /\ wproms[w].err.name = WriteErrorName
         /\ wproms[w].err.path = getManifestPath(AppiumHome)
         /\ wproms[w].err.home = AppiumHome

\* a write() call of a caller has settled after its file write failed
C9_Witness ==
  \E j \in WriteCalls :
    calls[j].by = "user" /\ wproms[calls[j].prom].failed /\ wproms[calls[j].prom].pc = "done"

\* C10: two lookups return the same instance exactly when they were made with
\* the same home-directory string.
C10_SingletonIdentity ==
  \A i, j \in 1..Len(lookups) :
    (lookups[i].inst = lookups[j].inst) <=> (lookups[i].home = lookups[j].home)

\* a path was looked up twice, and so was the same path with a trailing
\* separator
C10_Witness ==
  \E i, j, k \in 1..Len(lookups) :
    /\ i # j /\ lookups[i].home = "/some/path" /\ lookups[j].home = "/some/path"
    /\ lookups[i].inst = lookups[j].inst
    /\ lookups[k].home = "/some/path/" /\ lookups[k].inst # lookups[i].inst

\* the key is a key of the mapping (the name of an installed extension)
HasKey(o, key, n) == heap[o][key][n] # Absent

\* C11: on the drivers and plugins mappings a read() returned, assigning to a
\* key a value different from the one it holds sets the dirty flag, deleting
\* a key of the mapping sets the dirty flag, and assigning the value a key
\* already holds or deleting a key that is not in the mapping leaves the
\* dirty flag as it was.
C11_ChangeObservation ==
  [][\A o \in 1..Len(heap), key \in Keys, n \in Names :
       /\ ProxyDelete(o, key, n) => dirty' = (dirty \/ HasKey(o, key, n))
       /\ \A v \in Recs :
            ProxySet(o, key, n, v) => dirty' = (dirty \/ heap[o][key][n] # v)]_vars

\* ------------------------------------------------------- validate() claims
\* the problems of entry k of the last validate() call with message err
WithErr(k, err) == {i \in 1..Len(validated.found[k]) : validated.found[k][i].err = err}
Checked == 1..Len(validated.found)
OutNames == {validated.out[i].name : i \in 1..Len(validated.out)}

\* C14: when validate() returns, the mapping holds exactly the entries for
\* which no problem (generic, type-specific or schema) was found, each with
\* the record it had, in the order they had; every entry with a problem has
\* been deleted and reported. A mapping of one well-formed driver and one
\* driver without mainClass ends with the well-formed entry only.
C14_ValidatePrunes ==
  (passes > 0 /\ validated.returned) =>
    /\ \A k \in 1..Len(validated.exts) :
         IF validated.found[k] = <<>>
         THEN \E i \in 1..Len(validated.out) : validated.out[i] = validated.exts[k]
         ELSE /\ validated.exts[k].name \notin OutNames
              /\ \E i \in 1..Len(validated.report) :
                   validated.report[i].name = validated.exts[k].name
    /\ \A i \in 1..Len(validated.out) :
         \E k \in 1..Len(validated.exts) : validated.exts[k] = validated.out[i]
    /\ \A i, j \in 1..Len(validated.out) :
         i < j => \E k, l \in 1..Len(validated.exts) :
                    k < l /\ validated.exts[k] = validated.out[i]
                          /\ validated.exts[l] = validated.out[j]
    /\ validated.exts = <<Entry("fake", GoodDriver), Entry("other", WithBadFields({"mainClass"}))>>
         => validated.out = <<Entry("fake", GoodDriver)>>

\* of a well-formed driver, a driver without mainClass and a third driver
\* with another automationName, the first and the third are left
C14_Witness ==
  /\ passes > 0 /\ validated.returned
  /\ validated.exts = <<Entry("fake", GoodDriver), Entry("other", WithBadFields({"mainClass"})),
                        Entry("third", [GoodDriver EXCEPT !.automationName = Str("UiAutomator2")])>>
  /\ validated.out = <<validated.exts[1], validated.exts[3]>>

\* C15: in one validate() pass a driver record gets the duplicate-
\* automationName problem exactly when a record earlier in the mapping has the
\* same automationName, valid or not; so the first occurrence is never
\* flagged, and no two records left after validate() share an automationName.
C15_AutomationNameUnique ==
  /\ \A k \in Checked :
       (WithErr(k, DuplicateAutomationName) # {})
         <=> \E j \in 1..(k - 1) :
               validated.exts[j].data.automationName = validated.exts[k].data.automationName
  /\ validated.returned =>
       \A i, j \in 1..Len(validated.out) :
         i # j => validated.out[i].data.automationName # validated.out[j].data.automationName

\* the first record is invalid (no mainClass), the second has the same
\* automationName and nothing else wrong: both are pruned, the second as a
\* duplicate only
C15_Witness ==
  /\ passes > 0 /\ validated.returned
  /\ validated.exts = <<Entry("fake", WithBadFields({"mainClass"})), Entry("other", GoodDriver)>>
  /\ WithErr(1, DuplicateAutomationName) = {}
  /\ validated.found[2] = <<Problem(DuplicateAutomationName, Str("XCUITest"))>>
  /\ validated.out = <<>>

\* C16: the automationNames an earlier validate() call has seen play no part
\* in a later call on the same registry: a record is flagged as a duplicate
\* only for a record of the mapping being validated, and after the call the
\* seen names are those of this mapping.
C16_SeenSetReset ==
  passes > 0 =>
    /\ \A k \in Checked :
         (\A j \in Checked : j # k =>
            validated.exts[j].data.automationName # validated.exts[k].data.automationName)
           => WithErr(k, DuplicateAutomationName) = {}
    /\ knownAutomationNames = {validated.exts[k].data.automationName : k \in Checked}

\* a second call validates a mapping whose only record has an automationName
\* the first call has seen, and keeps it
C16_Witness ==
  /\ passes = 2
  /\ Str("XCUITest") \in validated.knownAtCall
  /\ validated.exts = <<Entry("fake", GoodDriver)>>
  /\ validated.found = <<(<<>>)>>
  /\ validated.out = validated.exts

\* the message of the generic check of a field
GenericErr ==
  [version |-> "Missing or incorrect version",
   pkgName |-> "Missing or incorrect NPM package name",
   installSpec |-> "Missing or incorrect installation spec",
   installType |-> "Missing or incorrect install type",
   installPath |-> "Missing or incorrect installation path",
   mainClass |-> "Missing or incorrect driver class name"]

FieldFails(extData, f) ==
  IF f = "installType"
  THEN extData[f] \notin {Str("npm"), Str("local"), Str("github"), Str("git")}
  ELSE extData[f].t # "string"

\* C17: the generic problems of a record are exactly one problem for every
\* failing field among version, pkgName, installSpec, installPath, mainClass
\* (not a string) and installType (not npm, local, github or git), carrying
\* the value of that field, and none for the other fields; a record failing
\* in version only, or in installType only, has exactly one problem.
C17_GenericChecks ==
  \A k \in Checked :
    /\ \A f \in GenericFields :
         /\ Cardinality(WithErr(k, GenericErr[f]))
              = IF FieldFails(validated.exts[k].data, f) THEN 1 ELSE 0
         /\ \A i \in WithErr(k, GenericErr[f]) :
              validated.found[k][i].val = validated.exts[k].data[f]
    /\ \A f \in {"version", "installType"} :
         (k = 1 /\ validated.exts[k].data = WithBadFields({f}))
           => Len(validated.found[k]) = 1

\* a record with installType foo and no version has exactly these two
\* problems, each with its value
C17_Witness ==
  /\ passes > 0
  /\ validated.exts = <<Entry("fake", WithBadFields({"version", "installType"}))>>
  /\ validated.found[1] = <<Problem(GenericErr["version"], Undefined),
                            Problem(GenericErr["installType"], Str("foo"))>>

PlatformErrs ==
  [missing |-> "Missing or incorrect supported platformNames list.",
   empty |-> "Empty platformNames list.",
   element |-> "Incorrectly formatted platformName."]

NonStrings(a) == {i \in 1..Len(a) : a[i].t # "string"}

\* C18: for a driver record, platformNames that is missing or not an array
\* yields exactly one missing/incorrect-type problem, an empty array exactly
\* one empty-list problem, a non-empty array one malformed-element problem for
\* every element that is not a string (carrying that element) - and in each
\* case no platformNames problem of the other kinds.
C18_PlatformNamesChecks ==
  \A k \in Checked :
    LET p == validated.exts[k].data.platformNames
        n(kind) == Cardinality(WithErr(k, PlatformErrs[kind]))
    IN IF p.t # "array" THEN n("missing") = 1 /\ n("empty") = 0 /\ n("element") = 0
       ELSE IF p.a = <<>> THEN n("missing") = 0 /\ n("empty") = 1 /\ n("element") = 0
       ELSE /\ n("missing") = 0 /\ n("empty") = 0
            /\ n("element") = Cardinality(NonStrings(p.a))
            /\ \A e \in {p.a[i] : i \in NonStrings(p.a)} :
                 \E i \in WithErr(k, PlatformErrs["element"]) : validated.found[k][i].val = e

\* platformNames [iOS, 5] yields one problem, for the 5, and the record is
\* pruned
C18_Witness ==
  /\ passes > 0 /\ validated.returned
  /\ validated.exts = <<Entry("fake", [GoodDriver EXCEPT !.platformNames = Arr(<<Str("iOS"), Num("5")>>)])>>
  /\ validated.found[1] = <<Problem(PlatformErrs["element"], Num("5"))>>
  /\ validated.out = <<>>

\* C19: a record whose schema field is neither a string nor a plain object
\* (a number, a boolean, an array) gets the malformed-schema problem; a
\* string schema with a file extension that is not allowed gets the
\* unsupported-extension problem; a record without a schema field gets no
\* schema problem.
C19_SchemaChecks ==
  \A k \in Checked :
    LET schema == validated.exts[k].data.schema IN
    /\ (validated.exts[k].data.t = "object" /\ schema.t \in {"number", "boolean", "array"})
         => WithErr(k, MalformedSchema) # {}
    /\ (schema.t = "string" /\ extname(schema.s) \notin ALLOWED_SCHEMA_EXTENSIONS)
         => WithErr(k, "Schema file has unsupported extension") # {}
    /\ schema.t = "undefined"
         => \A i \in 1..Len(validated.found[k]) :
              validated.found[k][i].err \notin
                {MalformedSchema, "Schema file has unsupported extension",
                 "Unable to register schema at path", "Unable to register embedded schema"}

\* C20: validate() returns for every mapping, whatever its records are (a
\* null or non-object record included) and whether or not registering a
\* schema fails.
C20_ValidateNeverThrows == passes > 0 => validated.returned

\* --------------------------------------------------------- registry claims
\* C12: when addExtension, updateExtension or removeExtension of a registry
\* loadExtensions() returned has resolved (so its file write did not fail)
\* and it changed installedExtensions[name], a writeFile of the manifest was
\* issued after the call, and the text written holds the new record (or no
\* record, for a removal) under the key of the registry's type.
C12_RegistryChangesPersisted ==
  \A e \in 1..Len(ecalls) :
    (ecalls[e].op # "load" /\ ecalls[e].st = "resolved" /\ ecalls[e].was # ecalls[e].new)
      => \E k \in 1..Len(iolog) :
           /\ k > ecalls[e].io
           /\ iolog[k].op = "writeFile"
           /\ iolog[k].text[ConfigKey(ecalls[e].ty)][ecalls[e].name] = ecalls[e].new

\* C13: for each registry loadExtensions() returned, installedExtensions is
\* the proxied mapping of its type in the manifest the store read, so
\* isInstalled(name) holds exactly for the names validation left in that
\* mapping.
C13_RegistriesSeeded ==
  \A ty \in Types :
    configs[ty].made =>
      /\ configs[ty].proxy = configs[ty].extData
      /\ \A n \in Names : isInstalled(ty, n) <=> HasKey(configs[ty].extData, ConfigKey(ty), n)

\* ------------------------------------------------ claims about read failures
\* C21: a read whose fs.readFile failed with ENOENT rejects only with the
\* error of the write it awaited; a read whose fs.readFile failed for
\* another reason, or whose YAML.parse threw, rejects with the error that
\* names the resolved manifest path; a read whose path resolution failed
\* rejects with the 'unknown problem' error.
C21_ReadFailureTaxonomy ==
  \A r \in 1..Len(rproms) :
    /\ (rproms[r].cause = "ENOENT" /\ rproms[r].st = "rejected")
         => /\ wproms[rproms[r].w].st = "rejected"
            /\ rproms[r].err = wproms[rproms[r].w].err
    /\ rproms[r].cause \in {"readFile", "parse"}
         => rproms[r].err = ReadError(getManifestPath(AppiumHome))
    /\ rproms[r].cause = "path" => rproms[r].err = UnknownProblem

\* C22: the manifest object a read builds carries the schemaRev of the file
\* when the file has one and CONFIG_SCHEMA_REV when the file has none or
\* does not exist, and the schemaRev of a manifest object never changes.
C22_SchemaRevPresent ==
  [][/\ Len(heap') > Len(heap)
        => heap'[Len(heap')].schemaRev =
             IF disk.kind = "yaml" /\ disk.hasRev THEN disk.schemaRev
             ELSE CONFIG_SCHEMA_REV
     /\ \A o \in 1..Len(heap) : heap'[o].schemaRev = heap[o].schemaRev]_vars

\* a read of a file without schemaRev resolved to a manifest with schemaRev 2
C22_Witness ==
  \E o \in Handed :
    /\ disk.kind = "yaml" /\ ~disk.hasRev
    /\ heap[o].schemaRev = CONFIG_SCHEMA_REV

\* C23: when the manifest was read from a file that has no schemaRev (so the
\* manifest in memory has schemaRev 2 and the file does not), a write()
\* without force made with no write handle set starts the file write.
C23_SchemaRevUpdateWritten ==
  [][(/\ data # 0 /\ disk.kind = "yaml" /\ ~disk.hasRev
      /\ writing = 0
      /\ WriteCall(FALSE))
       => /\ wproms'[Len(wproms')].pc = "mkdirp"
          /\ Len(iolog') = Len(iolog) + 1
          /\ iolog'[Len(iolog')].op = "mkdirp"]_vars

\* C24: the manifest path is <home>/node_modules/.cache/appium/extensions.yaml
\* when appium is installed locally in the home and <home>/extensions.yaml
\* otherwise; the store asks for it at most once, and every readFile and
\* writeFile names that path and every mkdirp its directory.
ExpectedPath ==
  IF localAppium
  THEN <<AppiumHome, "node_modules", ".cache", "appium", "extensions.yaml">>
  ELSE <<AppiumHome, "extensions.yaml">>

C24_ManifestPath ==
  /\ manifestPath # NoPath => manifestPath = ExpectedPath
  /\ Cardinality({k \in 1..Len(iolog) : iolog[k].op = "getManifestPath"}) <= 1
  /\ \A k \in 1..Len(iolog) :
       /\ iolog[k].op \in {"readFile", "writeFile"} => iolog[k].path = ExpectedPath
       /\ iolog[k].op = "mkdirp"
            => iolog[k].path = SubSeq(ExpectedPath, 1, Len(ExpectedPath) - 1)

\* with appium installed locally, the file was read twice and written, each
\* time at the local path
C24_Witness ==
  /\ localAppium
  /\ Cardinality({k \in 1..Len(iolog) : iolog[k].op = "readFile"}) >= 2
  /\ \E k \in 1..Len(iolog) :
       iolog[k].op = "writeFile" /\ iolog[k].path = ExpectedPath

\* C25: every manifest object a read() of the store has resolved to is the
\* store's current manifest (this._data, the object write() serializes),
\* whatever reads, forced or not, were made since.
C25_SharedByReference == \A o \in Handed : o = data

\* C26: whenever no write() is executing (every promise of write()'s inner
\* function has settled), the write handle _writing is null.
C26_WriteHandleCleared == WPending = {} => writing = 0

\* C27: addExtension(n, r) leaves r under n, and n installed;
\* removeExtension(n) leaves n not installed; updateExtension(n, p) leaves
\* under n a record that has p's value for every field of p and for every
\* other field the value the record had before; each of the three leaves
\* the records under every other name, of either registry, as they were.
OthersUnchanged(ty, n) ==
  \A ty2 \in Types, n2 \in Names :
    (ty2 # ty \/ n2 # n) => InstalledIn(heap', configs', ty2, n2) = Installed(ty2, n2)

C27_RegistryCrud ==
  [][\A ty \in Types, n \in Names :
       /\ \A r \in Recs :
            AddExtension(ty, n, r)
              => /\ InstalledIn(heap', configs', ty, n) = r
                 /\ InstalledIn(heap', configs', ty, n) # Absent
                 /\ OthersUnchanged(ty, n)
       /\ RemoveExtension(ty, n)
            => /\ InstalledIn(heap', configs', ty, n) = Absent
               /\ OthersUnchanged(ty, n)
       /\ UpdateExtension(ty, n)
            => /\ InstalledIn(heap', configs', ty, n) # Absent
               /\ \A f \in DOMAIN GoodDriver \ {"t"} :
                    RecordOf[InstalledIn(heap', configs', ty, n)][f] =
                      IF f \in DOMAIN UpdatePartial THEN UpdatePartial[f]
                      ELSE IF Installed(ty, n) = Absent THEN Undefined
                      ELSE RecordOf[Installed(ty, n)][f]
               /\ OthersUnchanged(ty, n)]_vars

\* an installed record was updated while another name was installed in the
\* same registry
C27_Witness ==
  \E e \in 1..Len(ecalls) :
    /\ ecalls[e].op = "update" /\ ecalls[e].was = "r1"
    /\ Installed(ecalls[e].ty, ecalls[e].name) = "r1u"
    /\ \E n \in Names : n # ecalls[e].name /\ isInstalled(ecalls[e].ty, n)

\* C28: whenever a manifest is loaded, a file write has succeeded, no write
\* is in flight and the dirty flag is clear, the content of the last
\* successful writeFile is the serialization of the manifest in memory.
Written == {w \in 1..Len(wproms) : wproms[w].st = "resolved" /\ wproms[w].val = TRUE}
LastWritten == CHOOSE w \in Written : \A v \in Written : v <= w

C28_NoLostUpdate ==
  (data # 0 /\ Written # {} /\ WPending = {} /\ ~dirty)
    => wproms[LastWritten].text = YAMLstringify(heap[data])

\* C29: a step in which mkdirp or writeFile fails leaves the dirty flag and
\* the manifest in memory as they were; a write() made on a dirty store
\* when the last write failed that way starts a file write of its own; and
\* that write resolves to true when its writeFile succeeds.
FailedWrites == {w \in 1..Len(wproms) : wproms[w].failed}

C29_FailedWriteRetryable ==
  [][/\ FailedWrites' # FailedWrites
        => dirty' = dirty /\ heap' = heap /\ data' = data
     /\ \A force \in BOOLEAN :
          (Len(wproms) \in FailedWrites /\ dirty /\ WriteCall(force))
            => /\ Len(wproms') = Len(wproms) + 1
               /\ wproms'[Len(wproms')].pc = "mkdirp"
               /\ calls'[Len(calls')].prom = Len(wproms')
     /\ \A w \in 1..Len(wproms) :
          (w - 1 \in FailedWrites /\ WriteFileDone(w, TRUE))
            => wproms'[w].st = "resolved" /\ wproms'[w].val = TRUE /\ ~dirty']_vars

\* a write failed on a dirty store and the write() made next wrote the file
C29_Witness ==
  \E w \in FailedWrites :
    /\ w < Len(wproms)
    /\ wproms[w + 1].st = "resolved" /\ wproms[w + 1].val = TRUE
    /\ \E j \in WriteCalls : calls[j].prom = w + 1 /\ calls[j].dirtyAt /\ ~calls[j].force

\* C30: when the validation run by loadExtensions on the mappings read()
\* returned deletes an entry the dirty flag is set after it, and when it
\* deletes none the dirty flag is as it was; and the first write() made
\* after a validation that deleted an entry, when no file write is in
\* flight, starts a file write (which serializes the pruned manifest).
Prunings == {e \in 1..Len(ecalls) : ecalls[e].pruned}

C30_PruningPersisted ==
  [][/\ \A e \in 1..Len(ecalls) :
          (ecalls[e].st = "pending" /\ ecalls[e].op = "load" /\ ecalls'[e].st = "resolved")
            => IF heap' # heap THEN dirty' ELSE dirty' = dirty
     /\ (/\ Len(calls') = Len(calls) + 1
         /\ calls'[Len(calls')].op = "write"
         /\ WPending = {}
         /\ \E e \in Prunings : \A j \in WriteCalls : j <= ecalls[e].at)
          => /\ calls'[Len(calls')].own
             /\ wproms'[calls'[Len(calls')].prom].pc = "mkdirp"]_vars

\* --------------------------------------------- claims about validate() twice
\* C31: validating the mapping a validate() call returned, when none of its
\* records has a schema field, finds no problem, deletes nothing and
\* reports nothing, for a driver registry; and the same holds for the
\* validation of the base class, which a plugin registry runs.
NoSchemaField(exts) == \A k \in 1..Len(exts) : exts[k].data.schema = Undefined

C31_ValidateIdempotent ==
  [][(/\ passes > 0 /\ validated.returned /\ NoSchemaField(validated.exts)
      /\ passes' = passes + 1 /\ validated'.exts = validated.out)
       => /\ validated'.returned
          /\ \A k \in 1..Len(validated'.found) : validated'.found[k] = <<>>
          /\ validated'.report = <<>>
          /\ validated'.out = validated.out
          /\ LET p == validateBase(validated.exts, {})
                 q == validateBase(p.out, {})
             IN p.returned
                  => /\ q.returned /\ q.report = <<>> /\ q.out = p.out
                     /\ \A k \in 1..Len(q.found) : q.found[k] = <<>>]_vars

\* the mapping left of three drivers after the second was deleted has been
\* validated again, and nothing was deleted or reported
C31_Witness ==
  /\ passes = 2 /\ validated.returned
  /\ validated.exts = <<Entry("fake", GoodDriver),
                        Entry("third", [GoodDriver EXCEPT !.automationName = Str("UiAutomator2")])>>
  /\ validated.out = validated.exts /\ validated.report = <<>>

\* ------------------------------------------------ claims about rejected reads
\* C32: when a read() rejects because fs.readFile or YAML.parse failed, or
\* because the mkdirp or writeFile of the write of a new file failed, the
\* store holds the manifest it held when the read() was called (none, when
\* it held none) and the read handle is null; and a read() made when the
\* last read was rejected that way calls fs.readFile again.
RejectedByClaimedCause(rp) ==
  /\ rp.st = "rejected"
  /\ \/ rp.cause \in {"readFile", "parse"}
     \/ rp.cause = "ENOENT" /\ wproms[rp.w].failed

C32_RejectedReadChangesNothing ==
  [][/\ \A r \in 1..Len(rproms) :
          (rproms[r].pc = "settled" /\ rproms'[r].pc = "done" /\ RejectedByClaimedCause(rproms[r]))
            => /\ reading' = 0
               /\ \A i \in ReadCalls :
                    (calls[i].own /\ calls[i].prom = r) => data' = calls[i].dataAt
     /\ \A force \in BOOLEAN :
          (/\ Len(rproms) > 0 /\ rproms[Len(rproms)].pc = "done"
           /\ RejectedByClaimedCause(rproms[Len(rproms)])
           /\ ReadCall(force))
            => /\ Len(rproms') = Len(rproms) + 1
               /\ rproms'[Len(rproms')].pc = "readFile"
               /\ iolog'[Len(iolog')].op = "readFile"]_vars

====
